---- MODULE Spec2Model ----
(***************************************************************************)
(* Model of fatahh (src/src/main.rs): the directory walk that collects     *)
(* the regular, non-empty files, and FileCollection, the bounded           *)
(* collection that keeps the `count` biggest of them.                      *)
(*                                                                         *)
(* Vec indices are the Rust ones (0-based); a Vec is a TLA+ sequence, so   *)
(* Rust's v[k] is v[k + 1] here.                                           *)
(***************************************************************************)
EXTENDS Bags, FiniteSets, Integers, Naturals, Sequences, TLC

\* Bounds of the model.
MaxEntries == 4   \* items the directory walk yields
MaxLen     == 4   \* largest file length in bytes
MaxCount   == 3   \* largest value of --count
MaxCalls   == 5   \* smart_insert calls made on a collection driven directly

VARIABLES
    entries,        \* what WalkDir yields, in order (the input of a scan)
    i,              \* position of the walk loop in entries (1-based)
    files,          \* main's `files` vector
    j,              \* smart_insert calls made so far
    biggest_files,  \* the FileCollection: [files, max_size]
    pc,             \* "walk", "insert", "done"; "api" when driven directly
    panicked,       \* a smart_insert call panicked
    searched,       \* the last smart_insert call ran binary_search_by
    arg             \* the FileData given to the last smart_insert call

vars == <<entries, i, files, j, biggest_files, pc, panicked, searched, arg>>

----------------------------------------------------------------------------
\* Data

\* struct FileData { path, size }
FileData(path, size) == [path |-> path, size |-> size]

NoFile == FileData(0, 0)

\* The kinds of item the walk yields: an Err, or an entry with a file type.
Kinds == {"err", "file", "dir", "symlink"}

\* One item of the walk.  meta_ok: entry.metadata() succeeds; len: its length.
WalkItem(path, shape) ==
    [path |-> path, kind |-> shape.kind, meta_ok |-> shape.meta_ok, len |-> shape.len]

Shapes ==
    {[kind |-> k, meta_ok |-> TRUE, len |-> 0] : k \in Kinds \ {"file"}}
    \cup {[kind |-> "file", meta_ok |-> FALSE, len |-> 0]}
    \cup {[kind |-> "file", meta_ok |-> TRUE, len |-> l] : l \in 0..MaxLen}

----------------------------------------------------------------------------
\* Sequence helpers

Last(s) == s[Len(s)]

\* Vec::insert(index, x) for index <= len
InsertAt(s, index, x) ==
    SubSeq(s, 1, index) \o <<x>> \o SubSeq(s, index + 1, Len(s))

\* Vec::pop
Pop(s) == SubSeq(s, 1, Len(s) - 1)

\* descending by size
IsSortedDesc(s) == \A k \in 1..(Len(s) - 1) : s[k].size >= s[k + 1].size

\* The sizes of a Vec<FileData>, in order
SizesOf(s) == [k \in 1..Len(s) |-> s[k].size]

\* The elements of a sequence, as a set / as a bag
Range(s) == {s[k] : k \in 1..Len(s)}

RECURSIVE SeqToBag(_)
SeqToBag(s) ==
    IF s = <<>> THEN EmptyBag ELSE SeqToBag(Tail(s)) (+) SetToBag({Head(s)})

----------------------------------------------------------------------------
\* FileCollection

\* FileCollection::new
new(max_size) == [files |-> <<>>, max_size |-> max_size]

\* Where a stable sort puts x in an already sorted s: after every element
\* that does not compare greater, i.e. after every element of size >= x.size.
RECURSIVE StableInsertDesc(_, _)
StableInsertDesc(s, x) ==
    IF s = <<>> THEN <<x>>
    ELSE IF Head(s).size >= x.size THEN <<Head(s)>> \o StableInsertDesc(Tail(s), x)
    ELSE <<x>> \o s

\* A mutant of sort_by: the comparator the wrong way round (a.size.cmp(&b.size)).
RECURSIVE sort_by_ascending(_)
sort_by_ascending(s) ==
    IF s = <<>> THEN <<>>
    ELSE LET r == sort_by_ascending(SubSeq(s, 1, Len(s) - 1))
             x == Last(s)
             before == SelectSeq(r, LAMBDA y : y.size <= x.size)
             after == SelectSeq(r, LAMBDA y : y.size > x.size)
         IN before \o <<x>> \o after

\* self.files.sort_by(|a, b| b.size.cmp(&a.size)): a stable sort, descending
RECURSIVE sort_by(_)
sort_by(s) ==
    IF s = <<>> THEN <<>>
    ELSE StableInsertDesc(sort_by(SubSeq(s, 1, Len(s) - 1)), Last(s))

\* A mutant of binary_search_by: the comparator without .reverse(), which
\* searches the descending vector as if it were ascending.
binary_search_by_unreversed(s, target_size) ==
    IF \E k \in 1..Len(s) : s[k].size = target_size
    THEN {k - 1 : k \in {k \in 1..Len(s) : s[k].size = target_size}}
    ELSE {Cardinality({k \in 1..Len(s) : s[k].size < target_size})}

\* self.files.binary_search_by(|file| file.size.cmp(target_size).reverse()),
\* with Ok(pos) | Err(pos) => pos.  The set of positions the call may return:
\* on a vector sorted by the comparator, the index of any element of the
\* target size (the library leaves open which one) or, when there is none, the
\* one index that keeps the order; on a vector that is not sorted the result
\* is unspecified, any index in 0..len.
binary_search_by(s, target_size) ==
    IF ~IsSortedDesc(s) THEN 0..Len(s)
    ELSE IF \E k \in 1..Len(s) : s[k].size = target_size
    THEN {k - 1 : k \in {k \in 1..Len(s) : s[k].size = target_size}}
    ELSE {Cardinality({k \in 1..Len(s) : s[k].size > target_size})}

\* The outcome of find_insert_position: None, Some(index) or a panic;
\* searched records whether binary_search_by ran.
None == [tag |-> "None", index |-> 0, searched |-> FALSE]
Some(index) == [tag |-> "Some", index |-> index, searched |-> TRUE]
Panic == [tag |-> "Panic", index |-> 0, searched |-> FALSE]

\* A mutant of find_insert_position: the is_empty() test is missing, so
\* files[len - 1] is evaluated on an empty vector.
find_insert_position_unguarded(self, target_size) ==
    IF Len(self.files) = 0 THEN {Panic}
    ELSE IF target_size < Last(self.files).size THEN {None}
    ELSE {Some(pos) : pos \in binary_search_by(self.files, target_size)}

\* A mutant of find_insert_position: no comparison with the smallest file,
\* every candidate goes through the binary search.
find_insert_position_always_search(self, target_size) ==
    IF Len(self.files) = 0 THEN {None}
    ELSE {Some(pos) : pos \in binary_search_by(self.files, target_size)}

\* FileCollection::find_insert_position: the set of its possible outcomes
find_insert_position(self, target_size) ==
    IF Len(self.files) = 0 \/ target_size < Last(self.files).size THEN {None}
    ELSE {Some(pos) : pos \in binary_search_by(self.files, target_size)}

\* The outcome of smart_insert: the collection after the call.
Outcome(self, fs, p, srch) ==
    [self |-> [self EXCEPT !.files = fs], panicked |-> p, searched |-> srch]

\* The full-collection branch of smart_insert, given find_insert_position's
\* outcome r.  Vec::insert panics when index > len.
InsertAndPop(self, file, r) ==
    IF r.tag = "Panic" THEN Outcome(self, self.files, TRUE, r.searched)
    ELSE IF r.tag = "None" THEN Outcome(self, self.files, FALSE, r.searched)
    ELSE IF r.index > Len(self.files) THEN Outcome(self, self.files, TRUE, r.searched)
    ELSE Outcome(self, Pop(InsertAt(self.files, r.index, file)), FALSE, r.searched)

\* A mutant of smart_insert: the pop() after the insert is missing.
smart_insert_no_pop(self, file) ==
    IF Len(self.files) < self.max_size
    THEN LET pushed == Append(self.files, file)
         IN {Outcome(self, IF Len(pushed) = self.max_size THEN sort_by(pushed) ELSE pushed,
                     FALSE, FALSE)}
    ELSE {IF r.tag = "Some" /\ r.index <= Len(self.files)
          THEN Outcome(self, InsertAt(self.files, r.index, file), FALSE, r.searched)
          ELSE InsertAndPop(self, file, r)
          : r \in find_insert_position(self, file.size)}

\* A mutant of smart_insert: no push branch, every file goes through
\* find_insert_position.
smart_insert_search_only(self, file) ==
    {InsertAndPop(self, file, r) : r \in find_insert_position(self, file.size)}

\* A mutant of smart_insert: the sort at full capacity is missing.
smart_insert_no_sort(self, file) ==
    IF Len(self.files) < self.max_size
    THEN {Outcome(self, Append(self.files, file), FALSE, FALSE)}
    ELSE {InsertAndPop(self, file, r) : r \in find_insert_position(self, file.size)}

\* FileCollection::smart_insert: the set of its possible outcomes
smart_insert(self, file) ==
    IF Len(self.files) < self.max_size
    THEN LET pushed == Append(self.files, file)
         IN {Outcome(self, IF Len(pushed) = self.max_size THEN sort_by(pushed) ELSE pushed,
                     FALSE, FALSE)}
    ELSE {InsertAndPop(self, file, r) : r \in find_insert_position(self, file.size)}

----------------------------------------------------------------------------
\* main

\* A mutant of the walk loop's body: the `len == 0` test is missing.
loop_body_keeps_empty(fs, entry) ==
    IF entry.kind = "err" THEN fs
    ELSE IF entry.kind # "file" THEN fs
    ELSE IF ~entry.meta_ok THEN fs
    ELSE Append(fs, FileData(entry.path, entry.len))

\* The body of `for entry in WalkDir::new(&path_str)`: main's files vector
\* after one item of the walk.
loop_body(fs, entry) ==
    IF entry.kind = "err" THEN fs
    ELSE IF entry.kind # "file" THEN fs
    ELSE IF ~entry.meta_ok THEN fs
    ELSE IF entry.len = 0 THEN fs
    ELSE Append(fs, FileData(entry.path, entry.len))

\* State after construction: the walk has not started.  The walk yields any
\* sequence of at most MaxEntries items; an item's path is its position.
Init ==
    /\ \E n \in 0..MaxEntries : \E shape \in [1..n -> Shapes] :
          entries = [k \in 1..n |-> WalkItem(k, shape[k])]
    /\ i = 1
    /\ files = <<>>
    /\ j = 0
    /\ \E count \in 0..MaxCount : biggest_files = new(count)
    /\ pc = "walk"
    /\ panicked = FALSE
    /\ searched = FALSE
    /\ arg = NoFile

\* A mutant of the walk loop: an Err item ends the scan (a `break` or an
\* unwrap in place of `if let Ok(entry)`).
WalkStepAbortOnErr ==
    /\ pc = "walk"
    /\ i <= Len(entries)
    /\ files' = loop_body(files, entries[i])
    /\ i' = IF entries[i].kind = "err" \/ (entries[i].kind = "file" /\ ~entries[i].meta_ok)
            THEN Len(entries) + 1 ELSE i + 1
    /\ UNCHANGED <<entries, j, biggest_files, pc, panicked, searched, arg>>

\* One iteration of the walk loop.
WalkStep ==
    /\ pc = "walk"
    /\ i <= Len(entries)
    /\ files' = loop_body(files, entries[i])
    /\ i' = i + 1
    /\ UNCHANGED <<entries, j, biggest_files, pc, panicked, searched, arg>>

\* The walk is exhausted: on to the insert loop, on the empty collection
\* FileCollection::new(args.count).
WalkEnd ==
    /\ pc = "walk"
    /\ i > Len(entries)
    /\ pc' = "insert"
    /\ UNCHANGED <<entries, i, files, j, biggest_files, panicked, searched, arg>>

\* One iteration of `for file in files { biggest_files.smart_insert(file) }`.
\* A panic ends the program.
InsertStep ==
    /\ pc = "insert"
    /\ j < Len(files)
    /\ \E r \in smart_insert(biggest_files, files[j + 1]) :
          /\ biggest_files' = r.self
          /\ panicked' = r.panicked
          /\ searched' = r.searched
          /\ pc' = IF r.panicked THEN "done" ELSE pc
    /\ arg' = files[j + 1]
    /\ j' = j + 1
    /\ UNCHANGED <<entries, i, files>>

\* The insert loop is exhausted: the collection is handed to the table.
InsertEnd ==
    /\ pc = "insert"
    /\ j = Len(files)
    /\ pc' = "done"
    /\ UNCHANGED <<entries, i, files, j, biggest_files, panicked, searched, arg>>

Next == WalkStep \/ WalkEnd \/ InsertStep \/ InsertEnd

Spec == Init /\ [][Next]_vars

----------------------------------------------------------------------------
\* A FileCollection driven directly: any sequence of smart_insert calls

InitColl ==
    /\ entries = <<>>
    /\ i = 1
    /\ files = <<>>
    /\ j = 0
    /\ \E max_size \in 0..MaxCount : biggest_files = new(max_size)
    /\ pc = "api"
    /\ panicked = FALSE
    /\ searched = FALSE
    /\ arg = NoFile

\* One smart_insert call with any file; the path is the number of the call.
CallSmartInsert ==
    /\ pc = "api"
    /\ j < MaxCalls
    /\ ~panicked
    /\ \E size \in 0..MaxLen :
          /\ arg' = FileData(j + 1, size)
          /\ \E r \in smart_insert(biggest_files, FileData(j + 1, size)) :
                /\ biggest_files' = r.self
                /\ panicked' = r.panicked
                /\ searched' = r.searched
    /\ j' = j + 1
    /\ UNCHANGED <<entries, i, files, pc>>

NextColl == CallSmartInsert

SpecColl == InitColl /\ [][NextColl]_vars

----------------------------------------------------------------------------
\* Reference definitions, independent of the collection's code

Min(a, b) == IF a <= b THEN a ELSE b

\* The walk items that are regular files with readable metadata and len > 0
IsQualifying(e) == e.kind = "file" /\ e.meta_ok /\ e.len > 0

\* The walk items that fail: an Err from the walk, or a metadata error
IsFailing(e) == e.kind = "err" \/ (e.kind = "file" /\ ~e.meta_ok)

\* Full-sort reference: the k largest members of a bag of sizes, descending
RECURSIVE TopOfBag(_, _)
TopOfBag(b, k) ==
    IF k = 0 \/ BagToSet(b) = {} THEN <<>>
    ELSE LET m == CHOOSE x \in BagToSet(b) : \A y \in BagToSet(b) : y <= x
         IN <<m>> \o TopOfBag(b (-) SetToBag({m}), k - 1)

\* The files of fs that have fewer than k files of fs bigger than them
LargestOf(fs, k) ==
    {f \in Range(fs) : Cardinality({g \in Range(fs) : g.size > f.size}) < k}

DistinctSizes(fs) ==
    \A a, b \in 1..Len(fs) : a # b => fs[a].size # fs[b].size

\* main's two loops as functions: the vector the walk collects from a
\* sequence of items, and every collection the insert loop can end with.
RECURSIVE Collected(_)
Collected(es) ==
    IF es = <<>> THEN <<>>
    ELSE loop_body(Collected(SubSeq(es, 1, Len(es) - 1)), Last(es))

RECURSIVE InsertedAll(_, _)
InsertedAll(self, fs) ==
    IF fs = <<>> THEN {self}
    ELSE UNION {InsertedAll(r.self, Tail(fs)) : r \in smart_insert(self, Head(fs))}

Full == Len(biggest_files.files) = biggest_files.max_size

----------------------------------------------------------------------------
\* Claims

\* C1: in every reachable state, and so in the result handed to the table,
\* the collection's files are in descending order of size.
C1_Sortedness == IsSortedDesc(biggest_files.files)

\* C2: with pairwise distinct sizes, after the first j files have been
\* inserted the kept entries are exactly the min(K, j) largest of them, each
\* once; at the end, the min(K, n) largest of all.
C2_TopKCorrect ==
    (pc \in {"insert", "done"} /\ DistinctSizes(files)) =>
        /\ Range(biggest_files.files) = LargestOf(SubSeq(files, 1, j), biggest_files.max_size)
        /\ Len(biggest_files.files) = Min(biggest_files.max_size, j)
        /\ (pc = "done" => j = Len(files))

C2_Witness ==
    /\ pc = "done"
    /\ DistinctSizes(files)
    /\ biggest_files.max_size = 2
    /\ Len(files) = 3
    /\ files[3].size > files[1].size
    /\ files[1].size > files[2].size
    /\ searched

\* C3: after any sequence of smart_insert calls the collection holds at most
\* max_size files.
C3_Capacity == Len(biggest_files.files) <= biggest_files.max_size

C3_Witness ==
    /\ pc = "api"
    /\ biggest_files.max_size = 2
    /\ j >= 4
    /\ Len(biggest_files.files) = 2
    /\ searched

\* C4: on a collection created with max_size 0 every smart_insert call
\* completes without a panic and leaves the collection empty.
C4_ZeroCapacity ==
    biggest_files.max_size = 0 => (biggest_files.files = <<>> /\ ~panicked)

C4_Witness ==
    /\ pc = "api"
    /\ biggest_files.max_size = 0
    /\ j >= 2
    /\ arg.size > 0
    /\ biggest_files.files = <<>>

\* C5: every file collected, passed to smart_insert or present in the result
\* is a walk item that is a regular file with size > 0.
C5_Exclusion ==
    \A f \in Range(files) \cup Range(biggest_files.files) \cup (IF j > 0 THEN {arg} ELSE {}) :
        /\ f.size > 0
        /\ \E k \in 1..Len(entries) :
              /\ entries[k].path = f.path
              /\ entries[k].kind = "file"
              /\ entries[k].meta_ok
              /\ entries[k].len = f.size

C5_Witness ==
    /\ pc = "done"
    /\ \E a, b, c, d \in 1..Len(entries) :
          /\ entries[a].kind = "dir"
          /\ entries[b].kind = "symlink"
          /\ entries[c].kind = "file" /\ entries[c].meta_ok /\ entries[c].len = 0
          /\ IsQualifying(entries[d])
    /\ Len(biggest_files.files) = 1

\* C6: failing items never stop the scan: the walk visits every item, the
\* vector it collects is the one the scan without the failing items collects,
\* and the final result is one that scan can end with; the scan never panics
\* and always has a next step until it is done.
C6_ErrorAbsorption ==
    LET clean == SelectSeq(entries, LAMBDA e : ~IsFailing(e))
    IN /\ ~panicked
       /\ pc # "done" => ENABLED Next
       /\ pc # "walk" => (i = Len(entries) + 1 /\ files = Collected(clean))
       /\ pc = "done" => biggest_files \in InsertedAll(new(biggest_files.max_size), Collected(clean))

C6_Witness ==
    /\ pc = "done"
    /\ Len(entries) = 4
    /\ entries[1].kind = "err"
    /\ IsQualifying(entries[2])
    /\ entries[3].kind = "file" /\ ~entries[3].meta_ok
    /\ IsQualifying(entries[4])
    /\ Len(biggest_files.files) = 2

\* C7: when fewer qualifying files than K are found, the result holds each
\* of them exactly once and nothing else.
C7_FewerThanK ==
    LET qualifying == {e \in Range(entries) : IsQualifying(e)}
    IN (pc = "done" /\ Cardinality(qualifying) < biggest_files.max_size) =>
          /\ Len(biggest_files.files) = Cardinality(qualifying)
          /\ Range(biggest_files.files) = {FileData(e.path, e.len) : e \in qualifying}

C7_Witness ==
    /\ pc = "done"
    /\ biggest_files.max_size = 3
    /\ Len(files) = 2
    /\ files[1].size < files[2].size
    /\ Len(biggest_files.files) = 2

\* C8: the multiset of sizes in the final result is the K largest of the
\* multiset of sizes found, whatever the order of discovery.
C8_OrderIndependence ==
    pc = "done" =>
        SeqToBag(SizesOf(biggest_files.files))
            = SeqToBag(TopOfBag(SeqToBag(SizesOf(files)), biggest_files.max_size))

C8_Witness ==
    /\ pc = "done"
    /\ biggest_files.max_size = 2
    /\ Len(files) = 4
    /\ files[1].size = 1
    /\ files[2].size = 2
    /\ files[3].size = 2
    /\ files[4].size = 2
    /\ SizesOf(biggest_files.files) = <<2, 2>>

\* C9: a smart_insert call on a full collection (max_size > 0) with a file
\* smaller than the last kept one leaves files unchanged and does not run
\* the binary search.
C9_FastReject ==
    [][(/\ j' = j + 1
        /\ biggest_files.max_size > 0
        /\ Full
        /\ arg'.size < Last(biggest_files.files).size)
       => (biggest_files' = biggest_files /\ ~searched' /\ ~panicked')]_vars

C9_Witness ==
    /\ pc = "api"
    /\ biggest_files.max_size = 2
    /\ Full
    /\ j = 3
    /\ arg.size < Last(biggest_files.files).size
    /\ ~searched

\* C10: a full collection (max_size > 0) is in descending order, and a
\* smart_insert call on a full collection leaves it full and in descending
\* order.
C10_FullIsSorted ==
    /\ []((biggest_files.max_size > 0 /\ Full) => IsSortedDesc(biggest_files.files))
    /\ [][(biggest_files.max_size > 0 /\ Full) =>
            (Len(biggest_files'.files) = biggest_files'.max_size
             /\ IsSortedDesc(biggest_files'.files))]_vars

C10_Witness ==
    /\ pc = "api"
    /\ biggest_files.max_size = 3
    /\ Full
    /\ j = 5
    /\ searched
    /\ arg \in Range(biggest_files.files)
    /\ biggest_files.files[1].size > biggest_files.files[3].size

====
